---- MODULE Spec2Model ----
(***************************************************************************)
(* State-machine model of max/pipelines/context.py: the per-request        *)
(* sequence state TextContext (token buffer, start/active/end cursors,     *)
(* completion window, log-probability ledger, grammar matcher binding).    *)
(***************************************************************************)
EXTENDS Integers, Sequences, FiniteSets, TLC

\* ------------------------------------------------------------------------
\* Program constant and model bounds
\* ------------------------------------------------------------------------

CHUNK_SIZE == 128

\* Number of public calls made on one context in a behaviour of Spec, and
\* in a behaviour of SpecShort.
MaxOps == 4
ShortOps == 3

\* Number of calls in a behaviour of SpecMatcher.
MatcherOps == 3

\* Number of calls in a behaviour of SpecVision.
VisionOps == 3

\* Longest prompt handed to the constructor in SpecNew.
MaxNewLen == 130

\* Prompt lengths the contexts of Spec are constructed from.
PromptLens == {2, 128}

\* Token ids the model produces (update) or the matcher forces (jump_ahead).
Tokens == {1, 2}

\* Opaque LogProbabilities records; None is Python's None.
None == "None"
LogProbs == {"lpA"}

\* Deltas handed to bump_token_indices, as Optional[int]: <<>> is None (the
\* argument is omitted), <<d>> is the integer d.
Deltas == {<<>>, <<-1>>, <<1>>}

\* The end_idx deltas also hold one that carries end_idx a whole chunk ahead.
EndDeltas == Deltas \cup {<<CHUNK_SIZE>>}

\* The prompt content: token ids distinct from the generated ones and from
\* the zero filler.
PromptToken(i) == 3 + (i % 2)

VARIABLES
    tokens,                  \* self.tokens: array, index 0..size-1
    size,                    \* self.size
    start_idx,               \* self._start_idx
    active_idx,              \* self._active_idx
    end_idx,                 \* self._end_idx
    completion_start_idx,    \* self._completion_start_idx
    completion_end_idx,      \* self._completion_end_idx
    log_probabilities_data,  \* self._log_probabilities_data: dict position -> record
    matcher,                 \* self.matcher: None or the automaton (tokens it accepted)
    is_initial_prompt,       \* self.is_initial_prompt
    pixel_values,            \* self.pixel_values (TextAndVisionContext; <<>> otherwise)
    pc,                      \* "new" before __init__ has run, "live" after, "dead" if it raised
    arg,                     \* the constructor's tokens argument: [ndim, data]
    last,                    \* the last call: [op, raised, wrote]
    ret,                     \* what the last call returned (None, or drain's list)
    returned,                \* every <<position, token, logprob>> drains have returned, in order
    written,                 \* every buffer write so far, in order: [pos, token, eos]
    nops,                    \* number of calls made
    limit                    \* number of calls this behaviour may make

ctx == <<tokens, size, start_idx, active_idx, end_idx, completion_start_idx,
         completion_end_idx, log_probabilities_data, matcher, is_initial_prompt>>

obs == <<last, ret, returned, written, nops>>

vars == <<ctx, pixel_values, pc, arg, obs, limit>>

\* ------------------------------------------------------------------------
\* numpy / dict helpers
\* ------------------------------------------------------------------------

\* int(np.ceil(n / CHUNK_SIZE) * CHUNK_SIZE)
CeilChunks(n) == ((n + CHUNK_SIZE - 1) \div CHUNK_SIZE) * CHUNK_SIZE

\* np.zeros(n)
Zeros(n) == [i \in 0..(n - 1) |-> 0]

\* a[idx] on an array of length n: a negative index counts from the end,
\* anything outside [-n, n) raises IndexError.
ValidIndex(idx, n) == (0 - n) <= idx /\ idx < n
Pos(idx, n) == IF idx < 0 THEN idx + n ELSE idx

\* np.resize(a, n) for an array of length old: the new array is filled with
\* repeated copies of a (zeros when a is empty).
NpResize(a, old, n) == [i \in 0..(n - 1) |-> IF old = 0 THEN 0 ELSE a[i % old]]

\* a[lo:hi] on an array of length n, as a sequence.
SliceBound(i, n) == IF i < 0 THEN (IF i + n < 0 THEN 0 ELSE i + n)
                    ELSE (IF i > n THEN n ELSE i)
Slice(a, n, lo, hi) ==
    LET l == SliceBound(lo, n)
        h == SliceBound(hi, n)
    IN [k \in 1..(IF h > l THEN h - l ELSE 0) |-> a[l + k - 1]]

\* d[k] = v, d.pop(k, None) for every k of ks, and d.get(k)
DictSet(d, k, v) == [x \in (DOMAIN d) \cup {k} |-> IF x = k THEN v ELSE d[x]]
DictPopAll(d, ks) == [x \in (DOMAIN d) \ ks |-> d[x]]
DictGet(d, k) == IF k \in DOMAIN d THEN d[k] ELSE None

EmptyDict == [x \in {} |-> None]

SetMin(S) == CHOOSE x \in S : \A y \in S : x <= y

\* A call: the method, the exception it raised ("none": it returned), and
\* whether it executed self.tokens[...] = new_token.
Call(op, raised, wrote) == [op |-> op, raised |-> raised, wrote |-> wrote]

\* One buffer write: self.tokens[pos] = token, by update(is_eos=eos) or by
\* jump_ahead (eos is FALSE).
Write(pos, token, eos) == [pos |-> pos, token |-> token, eos |-> eos]

\* A call's return value: None, or a list.
RetNone == [is_none |-> TRUE, list |-> <<>>]
RetList(l) == [is_none |-> FALSE, list |-> l]

\* self.matcher: None, or a bound automaton: the tokens accept_token was
\* called with (offered), those it accepted (fed), and the number of buffer
\* writes made before it was bound (since).
NoMatcher == [bound |-> FALSE, fed |-> <<>>, offered |-> <<>>, since |-> 0]

\* ------------------------------------------------------------------------
\* TextContext.__init__
\* ------------------------------------------------------------------------

\* A one-dimensional array of n prompt tokens (data[k] is tokens[k-1]).
PromptArray(n) == [ndim |-> 1, data |-> [k \in 1..n |-> PromptToken(k - 1)]]

\* A two-dimensional array, which __init__ refuses.
BadArray(n) == [ndim |-> 2, data |-> [k \in 1..n |-> PromptToken(k - 1)]]

\* Mutant of NewSize: always leaves room for one more chunk.
NewSizeNextChunk(n) == ((n \div CHUNK_SIZE) + 1) * CHUNK_SIZE

\* self.size = int(np.ceil(len(tokens) / CHUNK_SIZE) * CHUNK_SIZE)
NewSize(n) == CeilChunks(n)

\* The fields __init__ sets from the tokens argument a.
New(a) ==
    LET n == Len(a.data)
        sz == NewSize(n)
    IN [tokens |-> [i \in 0..(sz - 1) |-> IF i < n THEN a.data[i + 1] ELSE Zeros(sz)[i]],
        size |-> sz,
        active_idx |-> n,
        start_idx |-> 0,
        end_idx |-> n,
        completion_start_idx |-> n,
        completion_end_idx |-> n,
        log_probabilities_data |-> EmptyDict,
        matcher |-> NoMatcher,
        is_initial_prompt |-> TRUE]

\* The fields of an object __init__ has not (or not successfully) built.
NoFields ==
    /\ tokens = <<>>
    /\ size = 0
    /\ start_idx = 0
    /\ active_idx = 0
    /\ end_idx = 0
    /\ completion_start_idx = 0
    /\ completion_end_idx = 0
    /\ log_probabilities_data = EmptyDict
    /\ matcher = NoMatcher
    /\ is_initial_prompt = FALSE

NoObs ==
    /\ ret = RetNone
    /\ returned = <<>>
    /\ written = <<>>
    /\ nops = 0

\* The state right after TextContext(tokens=a) returned.
Constructed(a) ==
    LET N == New(a)
    IN /\ tokens = N.tokens
       /\ size = N.size
       /\ start_idx = N.start_idx
       /\ active_idx = N.active_idx
       /\ end_idx = N.end_idx
       /\ completion_start_idx = N.completion_start_idx
       /\ completion_end_idx = N.completion_end_idx
       /\ log_probabilities_data = N.log_probabilities_data
       /\ matcher = N.matcher
       /\ is_initial_prompt = N.is_initial_prompt
       /\ pc = "live"
       /\ arg = a
       /\ last = Call("__init__", "none", FALSE)
       /\ NoObs

\* TextContext.__init__ on a one-dimensional array.
Construct ==
    /\ pc = "new"
    /\ arg.ndim = 1
    /\ LET N == New(arg)
       IN /\ tokens' = N.tokens
          /\ size' = N.size
          /\ start_idx' = N.start_idx
          /\ active_idx' = N.active_idx
          /\ end_idx' = N.end_idx
          /\ completion_start_idx' = N.completion_start_idx
          /\ completion_end_idx' = N.completion_end_idx
          /\ log_probabilities_data' = N.log_probabilities_data
          /\ matcher' = N.matcher
          /\ is_initial_prompt' = N.is_initial_prompt
    /\ pc' = "live"
    /\ last' = Call("__init__", "none", FALSE)
    /\ UNCHANGED <<arg, limit, pixel_values, ret, returned, written, nops>>

\* TextContext.__init__ on anything else: ValueError, no object.
ConstructFail ==
    /\ pc = "new"
    /\ arg.ndim # 1
    /\ pc' = "dead"
    /\ last' = Call("__init__", "ValueError", FALSE)
    /\ UNCHANGED <<ctx, arg, limit, pixel_values, ret, returned, written, nops>>

\* ------------------------------------------------------------------------
\* Properties
\* ------------------------------------------------------------------------

active_length == active_idx - start_idx
current_length == end_idx
next_tokens == Slice(tokens, size, start_idx, active_idx)

\* ------------------------------------------------------------------------
\* bump_token_indices
\* ------------------------------------------------------------------------

\* (x if x else 0): None and 0 both count as 0.
OrZero(d) == IF d # <<>> /\ d[1] # 0 THEN d[1] ELSE 0

\* Mutant of BumpRaises: the first check lets an empty window through.
BumpRaisesOffByOne(new_start_idx, new_active_idx, new_end_idx) ==
    \/ new_start_idx > new_active_idx
    \/ new_active_idx > new_end_idx

\* The two checks that raise ValueError.
BumpRaises(new_start_idx, new_active_idx, new_end_idx) ==
    \/ new_start_idx >= new_active_idx
    \/ new_active_idx > new_end_idx

bump_token_indices(ds, da, de) ==
    LET new_start_idx == OrZero(ds) + start_idx
        new_active_idx == OrZero(da) + active_idx
        new_end_idx == OrZero(de) + end_idx
    IN /\ pc = "live"
       /\ nops < limit
       /\ IF BumpRaises(new_start_idx, new_active_idx, new_end_idx)
          THEN /\ last' = Call("bump_token_indices", "ValueError", FALSE)
               /\ UNCHANGED <<start_idx, active_idx, end_idx>>
          ELSE /\ start_idx' = new_start_idx
               /\ active_idx' = new_active_idx
               /\ end_idx' = new_end_idx
               /\ last' = Call("bump_token_indices", "none", FALSE)
       /\ ret' = RetNone
       /\ nops' = nops + 1
       /\ UNCHANGED <<tokens, size, completion_start_idx, completion_end_idx,
                      log_probabilities_data, matcher, is_initial_prompt,
                      pc, arg, limit, pixel_values, returned, written>>

\* ------------------------------------------------------------------------
\* _upsize
\* ------------------------------------------------------------------------

UpsizeNeeded == end_idx >= size

\* self.size and self.tokens after _upsize().
UpsizedSize == IF UpsizeNeeded THEN size + CHUNK_SIZE ELSE size
UpsizedTokens == IF UpsizeNeeded THEN NpResize(tokens, size, size + CHUNK_SIZE) ELSE tokens

\* ------------------------------------------------------------------------
\* matcher.accept_token
\* ------------------------------------------------------------------------

\* The automaton after it accepted token t (a refused token leaves it as is).
Fed(m, t) == [m EXCEPT !.fed = Append(m.fed, t)]

\* The automaton after a call accept_token(t).
Offered(m, t) == [m EXCEPT !.offered = Append(m.offered, t)]

\* Mutant of AcceptToken: the call is not made.
AcceptTokenSkipped(m, t, ok) == m

\* The automaton after "assert self.matcher.accept_token(t)", ok being
\* what accept_token returned.
AcceptToken(m, t, ok) == IF ok THEN Fed(Offered(m, t), t) ELSE Offered(m, t)

\* ------------------------------------------------------------------------
\* update
\* ------------------------------------------------------------------------

\* self._completion_end_idx after the "if not is_eos" statement.
CompletionEndAfterUpdate(is_eos) ==
    IF ~is_eos THEN completion_end_idx + 1 ELSE completion_end_idx

\* The body of TextContext.update, which TextAndVisionContext.update runs
\* as super().update(...).
super_update(new_token, lp, is_eos) ==
    /\ pc = "live"
    /\ nops < limit
    /\ ret' = RetNone
    /\ nops' = nops + 1
    /\ UNCHANGED <<completion_start_idx, pc, arg, limit, returned>>
    /\ IF active_idx < end_idx
       THEN \* chunked prefill: only the cursors move
            /\ start_idx' = active_idx
            /\ active_idx' = end_idx
            /\ last' = Call("update", "none", FALSE)
            /\ UNCHANGED <<tokens, size, end_idx, completion_end_idx,
                           log_probabilities_data, matcher, is_initial_prompt,
                           written>>
       ELSE IF ~ValidIndex(active_idx, UpsizedSize)
       THEN \* self.tokens[self._active_idx] = new_token raises IndexError
            /\ size' = UpsizedSize
            /\ tokens' = UpsizedTokens
            /\ last' = Call("update", "IndexError", FALSE)
            /\ UNCHANGED <<start_idx, active_idx, end_idx, completion_end_idx,
                           log_probabilities_data, matcher, is_initial_prompt,
                           written>>
       ELSE /\ size' = UpsizedSize
            /\ tokens' = [UpsizedTokens EXCEPT ![Pos(active_idx, UpsizedSize)] = new_token]
            /\ log_probabilities_data' =
                  IF lp # None THEN DictSet(log_probabilities_data, active_idx, lp)
                  ELSE log_probabilities_data
            /\ start_idx' = active_idx
            /\ active_idx' = active_idx + 1
            /\ end_idx' = end_idx + 1
            /\ completion_end_idx' = CompletionEndAfterUpdate(is_eos)
            /\ written' = Append(written, Write(Pos(active_idx, UpsizedSize), new_token, is_eos))
            /\ IF ~matcher.bound
               THEN /\ is_initial_prompt' = FALSE
                    /\ last' = Call("update", "none", TRUE)
                    /\ UNCHANGED matcher
               ELSE \E ok \in BOOLEAN :
                       /\ matcher' = AcceptToken(matcher, new_token, ok)
                       /\ IF ok
                          THEN /\ is_initial_prompt' = FALSE
                               /\ last' = Call("update", "none", TRUE)
                          ELSE \* assert fails before is_initial_prompt is cleared
                               /\ last' = Call("update", "AssertionError", TRUE)
                               /\ UNCHANGED is_initial_prompt

\* TextContext.update
update(new_token, lp, is_eos) ==
    /\ super_update(new_token, lp, is_eos)
    /\ UNCHANGED pixel_values

\* ------------------------------------------------------------------------
\* TextAndVisionContext.update
\* ------------------------------------------------------------------------

\* The pixel_values argument of TextAndVisionContext.__init__: one encoded
\* image.
PixelValues == <<"image">>

\* A TextContext has no pixel_values.
NoPixels == <<>>

\* Mutant of PixelValuesAfterUpdate: the images are kept.
PixelValuesKept(raised) == pixel_values

\* self.pixel_values after TextAndVisionContext.update: the statement after
\* super().update(...) empties it, and is reached only if that call
\* returned.
PixelValuesAfterUpdate(raised) == IF raised = "none" THEN <<>> ELSE pixel_values

vision_update(new_token, lp, is_eos) ==
    /\ super_update(new_token, lp, is_eos)
    /\ pixel_values' = PixelValuesAfterUpdate(last'.raised)

\* ------------------------------------------------------------------------
\* jump_ahead
\* ------------------------------------------------------------------------

jump_ahead(new_token) ==
    /\ pc = "live"
    /\ nops < limit
    /\ ret' = RetNone
    /\ nops' = nops + 1
    /\ UNCHANGED <<start_idx, completion_start_idx, log_probabilities_data,
                   pc, arg, limit, pixel_values, returned>>
    /\ size' = UpsizedSize
    /\ IF ~ValidIndex(active_idx, UpsizedSize)
       THEN \* self.tokens[self._active_idx] = new_token raises IndexError
            /\ tokens' = UpsizedTokens
            /\ last' = Call("jump_ahead", "IndexError", FALSE)
            /\ UNCHANGED <<active_idx, end_idx, completion_end_idx, matcher,
                           is_initial_prompt, written>>
       ELSE /\ tokens' = [UpsizedTokens EXCEPT ![Pos(active_idx, UpsizedSize)] = new_token]
            /\ active_idx' = active_idx + 1
            /\ end_idx' = end_idx + 1
            /\ completion_end_idx' = completion_end_idx + 1
            /\ written' = Append(written, Write(Pos(active_idx, UpsizedSize), new_token, FALSE))
            /\ IF ~matcher.bound
               THEN /\ is_initial_prompt' = FALSE
                    /\ last' = Call("jump_ahead", "none", TRUE)
                    /\ UNCHANGED matcher
               ELSE \E ok \in BOOLEAN :
                       /\ matcher' = AcceptToken(matcher, new_token, ok)
                       /\ IF ok
                          THEN /\ is_initial_prompt' = FALSE
                               /\ last' = Call("jump_ahead", "none", TRUE)
                          ELSE /\ last' = Call("jump_ahead", "AssertionError", TRUE)
                               /\ UNCHANGED is_initial_prompt

\* ------------------------------------------------------------------------
\* set_matcher
\* ------------------------------------------------------------------------

\* A grammar matcher in its start state, bound now.
NewMatcher == [bound |-> TRUE, fed |-> <<>>, offered |-> <<>>, since |-> Len(written)]

set_matcher ==
    /\ pc = "live"
    /\ nops < limit
    /\ matcher' = NewMatcher
    /\ last' = Call("set_matcher", "none", FALSE)
    /\ ret' = RetNone
    /\ nops' = nops + 1
    /\ UNCHANGED <<tokens, size, start_idx, active_idx, end_idx,
                   completion_start_idx, completion_end_idx,
                   log_probabilities_data, is_initial_prompt,
                   pc, arg, limit, pixel_values, returned, written>>

\* ------------------------------------------------------------------------
\* reset
\* ------------------------------------------------------------------------

reset ==
    /\ pc = "live"
    /\ nops < limit
    /\ start_idx' = 0
    /\ is_initial_prompt' = TRUE
    /\ last' = Call("reset", "none", FALSE)
    /\ ret' = RetNone
    /\ nops' = nops + 1
    /\ UNCHANGED <<tokens, size, active_idx, end_idx, completion_start_idx,
                   completion_end_idx, log_probabilities_data, matcher,
                   pc, arg, limit, pixel_values, returned, written>>

\* ------------------------------------------------------------------------
\* outstanding_completion_tokens
\* ------------------------------------------------------------------------

\* range(self._completion_start_idx, self._completion_end_idx)
CompletionRange == completion_start_idx .. (completion_end_idx - 1)

\* The (token, logprob) pair appended for token_idx.
CompletionPair(token_idx) ==
    <<tokens[Pos(token_idx, size)], DictGet(log_probabilities_data, token_idx)>>

\* Mutant of CompletionStartAfterDrain: the window is not closed.
CompletionStartStale == completion_start_idx

\* self._completion_start_idx after the loop.
CompletionStartAfterDrain == completion_end_idx

outstanding_completion_tokens ==
    LET n == Cardinality(CompletionRange)
        bad == {i \in CompletionRange : ~ValidIndex(i, size)}
    IN /\ pc = "live"
       /\ nops < limit
       /\ nops' = nops + 1
       /\ UNCHANGED <<tokens, size, start_idx, active_idx, end_idx,
                      completion_end_idx, matcher, is_initial_prompt,
                      pc, arg, limit, pixel_values, written>>
       /\ IF bad = {}
          THEN /\ ret' = RetList([k \in 1..n |-> CompletionPair(completion_start_idx + k - 1)])
               /\ log_probabilities_data' =
                     DictPopAll(log_probabilities_data, CompletionRange)
               /\ completion_start_idx' = CompletionStartAfterDrain
               /\ returned' = returned \o
                     [k \in 1..n |-> <<completion_start_idx + k - 1>>
                                     \o CompletionPair(completion_start_idx + k - 1)]
               /\ last' = Call("outstanding_completion_tokens", "none", FALSE)
          ELSE \* self.tokens[token_idx] raises IndexError part-way through the loop
               /\ log_probabilities_data' =
                     DictPopAll(log_probabilities_data,
                                {i \in CompletionRange : i < SetMin(bad)})
               /\ ret' = RetNone
               /\ last' = Call("outstanding_completion_tokens", "IndexError", FALSE)
               /\ UNCHANGED <<completion_start_idx, returned>>

\* ------------------------------------------------------------------------
\* Specifications
\* ------------------------------------------------------------------------

\* One context, constructed from a prompt, driven by any sequence of calls.
Init ==
    /\ \E n \in PromptLens : Constructed(PromptArray(n))
    /\ pixel_values = NoPixels
    /\ limit = MaxOps

Next ==
    \/ \E t \in Tokens, lp \in LogProbs \cup {None}, e \in BOOLEAN : update(t, lp, e)
    \/ \E t \in Tokens : jump_ahead(t)
    \/ \E ds \in Deltas, da \in Deltas, de \in EndDeltas : bump_token_indices(ds, da, de)
    \/ reset
    \/ outstanding_completion_tokens

Spec == Init /\ [][Next]_vars

\* The same context and calls, one call fewer.
InitShort ==
    /\ \E n \in PromptLens : Constructed(PromptArray(n))
    /\ pixel_values = NoPixels
    /\ limit = ShortOps

SpecShort == InitShort /\ [][Next]_vars

\* A context a grammar matcher may be bound to at any point.
InitMatcher ==
    /\ \E n \in PromptLens : Constructed(PromptArray(n))
    /\ pixel_values = NoPixels
    /\ limit = MatcherOps

NextMatcher ==
    \/ Next
    \/ set_matcher

SpecMatcher == InitMatcher /\ [][NextMatcher]_vars

\* A TextAndVisionContext constructed from a prompt and one image, driven
\* by any sequence of calls; a grammar matcher may be bound to it.
InitVision ==
    /\ \E n \in PromptLens : Constructed(PromptArray(n))
    /\ pixel_values = PixelValues
    /\ limit = VisionOps

NextVision ==
    \/ \E t \in Tokens, lp \in LogProbs \cup {None}, e \in BOOLEAN : vision_update(t, lp, e)
    \/ \E t \in Tokens : jump_ahead(t)
    \/ \E ds \in Deltas, da \in Deltas, de \in EndDeltas : bump_token_indices(ds, da, de)
    \/ reset
    \/ outstanding_completion_tokens
    \/ set_matcher

SpecVision == InitVision /\ [][NextVision]_vars

\* The constructor alone, over every prompt length up to MaxNewLen.
InitNew ==
    /\ pc = "new"
    /\ \E n \in 0..MaxNewLen : arg \in {PromptArray(n), BadArray(n)}
    /\ NoFields
    /\ last = Call("none", "none", FALSE)
    /\ NoObs
    /\ pixel_values = NoPixels
    /\ limit = 0

NextNew == Construct \/ ConstructFail

SpecNew == InitNew /\ [][NextNew]_vars

\* ------------------------------------------------------------------------
\* What the history variables say
\* ------------------------------------------------------------------------

\* The tokens accepted for delivery, in order: every jump_ahead token and
\* every token update wrote with is_eos = False.
NotEos(w) == ~w.eos
Accepted ==
    LET ws == SelectSeq(written, NotEos)
    IN [k \in 1..Len(ws) |-> ws[k].token]

\* The tokens (positions) of every drain result so far, concatenated.
Delivered == [k \in 1..Len(returned) |-> returned[k][2]]
ReturnedPos == [k \in 1..Len(returned) |-> returned[k][1]]

\* The positions whose content is a token written by update(is_eos=True).
EosPos ==
    {q \in {written[k].pos : k \in 1..Len(written)} :
        LET k == CHOOSE j \in 1..Len(written) :
                    /\ written[j].pos = q
                    /\ \A i \in (j + 1)..Len(written) : written[i].pos # q
        IN written[k].eos}

\* The positions the last drain returned.
JustReturned ==
    {ReturnedPos[k] : k \in (Len(returned) - Len(ret.list) + 1)..Len(returned)}

Drained == last = Call("outstanding_completion_tokens", "none", FALSE)

\* ------------------------------------------------------------------------
\* C1 -- After construction and after every call (successful or failed) of
\* update, jump_ahead, bump_token_indices, reset and
\* outstanding_completion_tokens, 0 <= start_idx <= active_idx <= end_idx
\* <= size and size mod 128 = 0.
\* ------------------------------------------------------------------------

C1_CursorInvariant ==
    pc = "live" =>
        /\ 0 <= start_idx
        /\ start_idx <= active_idx
        /\ active_idx <= end_idx
        /\ end_idx <= size
        /\ size % CHUNK_SIZE = 0

\* ------------------------------------------------------------------------
\* C2 -- After construction and after every call,
\* completion_start_idx <= completion_end_idx <= end_idx.
\* ------------------------------------------------------------------------

C2_CompletionWindow ==
    pc = "live" =>
        /\ completion_start_idx <= completion_end_idx
        /\ completion_end_idx <= end_idx

\* ------------------------------------------------------------------------
\* C3 -- outstanding_completion_tokens never returns the same buffer
\* position twice: the positions successive drains return are strictly
\* increasing (so the ranges consumed are pairwise disjoint), and a drain
\* called immediately after a drain returns the empty list.
\* ------------------------------------------------------------------------

C3_PositionsIncrease ==
    \A i, j \in 1..Len(returned) : i < j => ReturnedPos[i] < ReturnedPos[j]

C3_DrainAfterDrainEmpty ==
    (Drained /\ last'.op = "outstanding_completion_tokens" /\ nops' = nops + 1)
        => (last'.raised = "none" /\ ~ret'.is_none /\ ret'.list = <<>>)

C4_AcceptedAreDelivered ==
    /\ Len(Delivered) <= Len(Accepted)
    /\ \A k \in 1..Len(Delivered) : Delivered[k] = Accepted[k]
    /\ Drained => Delivered = Accepted

\* ------------------------------------------------------------------------
\* C5 -- A token written by update with is_eos = True is in the buffer, but
\* no later outstanding_completion_tokens call returns its position,
\* whatever calls follow.
\* ------------------------------------------------------------------------

C5_EosNeverReturned ==
    Drained => JustReturned \cap EosPos = {}

\* ------------------------------------------------------------------------
\* C6 -- bump_token_indices(ds, da, de), an omitted delta counting as 0,
\* raises iff start_idx+ds >= active_idx+da or active_idx+da > end_idx+de;
\* when it raises nothing changes; when it does not, the three cursors take
\* their new values together (and nothing else changes).
\* ------------------------------------------------------------------------

DeltaValue(d) == IF d = <<>> THEN 0 ELSE d[1]

C6_BumpEffect(ds, da, de) ==
    LET ns == start_idx + DeltaValue(ds)
        na == active_idx + DeltaValue(da)
        ne == end_idx + DeltaValue(de)
    IN /\ last'.raised \in {"none", "ValueError"}
       /\ last'.raised = "ValueError" <=> (ns >= na \/ na > ne)
       /\ last'.raised = "ValueError" => UNCHANGED ctx
       /\ last'.raised = "none" =>
             /\ start_idx' = ns
             /\ active_idx' = na
             /\ end_idx' = ne
             /\ UNCHANGED <<tokens, size, completion_start_idx, completion_end_idx,
                            log_probabilities_data, matcher, is_initial_prompt>>

C6_BumpAtomic ==
    [][\A ds \in Deltas, da \in Deltas, de \in EndDeltas :
          bump_token_indices(ds, da, de) => C6_BumpEffect(ds, da, de)]_vars

\* A bump was refused on a context whose cursors an earlier bump had moved.
C6_Witness ==
    /\ last = Call("bump_token_indices", "ValueError", FALSE)
    /\ written = <<>>
    /\ start_idx = 1

\* ------------------------------------------------------------------------
\* C7 -- Constructing a context from a one-dimensional prompt of length L
\* yields start_idx = 0, active_idx = end_idx = completion_start_idx =
\* completion_end_idx = L, active_length = current_length = L, next_tokens
\* equal to the prompt, size = ceil(L/128)*128 (130 -> 256, 128 -> 128),
\* positions [L, size) equal to 0, an empty ledger, no matcher and
\* is_initial_prompt = true.
\* ------------------------------------------------------------------------

C7_Constructed ==
    (pc = "live" /\ last.op = "__init__") =>
        LET L == Len(arg.data)
        IN /\ arg.ndim = 1
           /\ start_idx = 0
           /\ active_idx = L
           /\ end_idx = L
           /\ completion_start_idx = L
           /\ completion_end_idx = L
           /\ active_length = L
           /\ current_length = L
           /\ next_tokens = arg.data
           /\ size % CHUNK_SIZE = 0
           /\ L <= size
           /\ size < L + CHUNK_SIZE
           /\ (L = 130 => size = 256)
           /\ (L = 128 => size = 128)
           /\ DOMAIN tokens = 0..(size - 1)
           /\ \A i \in L..(size - 1) : tokens[i] = 0
           /\ log_probabilities_data = EmptyDict
           /\ ~matcher.bound
           /\ is_initial_prompt

\* A prompt of 130 tokens was given a buffer of 256.
C7_Witness ==
    /\ pc = "live"
    /\ last.op = "__init__"
    /\ Len(arg.data) = 130
    /\ size = 256

\* ------------------------------------------------------------------------
\* C8 -- update called with active_idx < end_idx (chunked prefill) only sets
\* start_idx to the old active_idx and active_idx to end_idx; the buffer,
\* size, end_idx, the completion window, the ledger, the matcher and
\* is_initial_prompt are unchanged. Conversely update writes the buffer if
\* and only if active_idx = end_idx at the time of the call.
\* ------------------------------------------------------------------------

C8_UpdateEffect ==
    /\ active_idx < end_idx =>
          /\ start_idx' = active_idx
          /\ active_idx' = end_idx
          /\ UNCHANGED <<tokens, size, end_idx, completion_start_idx,
                         completion_end_idx, log_probabilities_data, matcher,
                         is_initial_prompt>>
    /\ last'.wrote <=> active_idx = end_idx

C8_ChunkedPrefill ==
    [][\A t \in Tokens, lp \in LogProbs \cup {None}, e \in BOOLEAN :
          update(t, lp, e) => C8_UpdateEffect]_vars

\* ------------------------------------------------------------------------
\* C9 -- update(token, logprob, is_eos) called with active_idx = end_idx
\* writes token at the old active_idx, records ledger[old active_idx] =
\* logprob iff a logprob was supplied, sets start_idx to the old active_idx,
\* increments active_idx and end_idx by one, increments completion_end_idx
\* by one iff is_eos is false, leaves completion_start_idx unchanged and
\* sets is_initial_prompt to false.
\* ------------------------------------------------------------------------

C9_UpdateEffect(t, lp, e) ==
    /\ ValidIndex(active_idx, size')
    /\ tokens'[Pos(active_idx, size')] = t
    /\ lp # None =>
          /\ DOMAIN log_probabilities_data' = DOMAIN log_probabilities_data \cup {active_idx}
          /\ log_probabilities_data'[active_idx] = lp
    /\ lp = None => DOMAIN log_probabilities_data' = DOMAIN log_probabilities_data
    /\ \A k \in DOMAIN log_probabilities_data \ {active_idx} :
          log_probabilities_data'[k] = log_probabilities_data[k]
    /\ start_idx' = active_idx
    /\ active_idx' = active_idx + 1
    /\ end_idx' = end_idx + 1
    /\ completion_end_idx' = (IF e THEN completion_end_idx ELSE completion_end_idx + 1)
    /\ completion_start_idx' = completion_start_idx
    /\ is_initial_prompt' = FALSE

C9_GenerationStep ==
    [][\A t \in Tokens, lp \in LogProbs \cup {None}, e \in BOOLEAN :
          (active_idx = end_idx /\ update(t, lp, e)) => C9_UpdateEffect(t, lp, e)]_vars

\* ------------------------------------------------------------------------
\* C10 -- jump_ahead(token) increments active_idx, end_idx and
\* completion_end_idx by one each, leaves start_idx and
\* completion_start_idx unchanged and adds no ledger entry, so active_length
\* grows by one; called right after a generation-mode update, the next
\* active window has length 2: the generated token, then the jumped token.
\* ------------------------------------------------------------------------

C10_JumpEffect(t) ==
    /\ active_idx' = active_idx + 1
    /\ end_idx' = end_idx + 1
    /\ completion_end_idx' = completion_end_idx + 1
    /\ start_idx' = start_idx
    /\ completion_start_idx' = completion_start_idx
    /\ log_probabilities_data' = log_probabilities_data
    /\ active_length' = active_length + 1
    /\ last = Call("update", "none", TRUE) =>
          /\ active_length' = 2
          /\ next_tokens' = <<written[Len(written)].token, t>>

C10_JumpAhead ==
    [][\A t \in Tokens : jump_ahead(t) => C10_JumpEffect(t)]_vars

\* ------------------------------------------------------------------------
\* C8, C9, C10 on the calls made while the cursor invariant of C1 holds:
\* the effects those claims state are then the effects of the call, so each
\* of the three fails only on a context whose end_idx bump_token_indices
\* has carried past the buffer.
\* ------------------------------------------------------------------------

C8_UnderCursorInvariant ==
    [][\A t \in Tokens, lp \in LogProbs \cup {None}, e \in BOOLEAN :
          (C1_CursorInvariant /\ update(t, lp, e)) => C8_UpdateEffect]_vars

C9_UnderCursorInvariant ==
    [][\A t \in Tokens, lp \in LogProbs \cup {None}, e \in BOOLEAN :
          (C1_CursorInvariant /\ active_idx = end_idx /\ update(t, lp, e))
              => C9_UpdateEffect(t, lp, e)]_vars

C10_UnderCursorInvariant ==
    [][\A t \in Tokens :
          (C1_CursorInvariant /\ jump_ahead(t)) => C10_JumpEffect(t)]_vars

\* ------------------------------------------------------------------------
\* C11 -- After reset, start_idx = 0 and the next active window
\* [start_idx, active_idx) spans the whole token history [0, end_idx);
\* active_idx, end_idx, the completion window, the buffer and the ledger
\* are unchanged and is_initial_prompt is true.
\* ------------------------------------------------------------------------

C11_ResetEffect ==
    /\ start_idx' = 0
    /\ active_idx' = end_idx'
    /\ next_tokens' = Slice(tokens', size', 0, end_idx')
    /\ UNCHANGED <<active_idx, end_idx, completion_start_idx, completion_end_idx,
                   tokens, size, log_probabilities_data>>
    /\ is_initial_prompt' = TRUE

C11_Reset == [][reset => C11_ResetEffect]_vars

\* What reset does do: the window becomes [0, active_idx).
C11_ResetToActive ==
    [][reset =>
          /\ start_idx' = 0
          /\ next_tokens' = Slice(tokens, size, 0, active_idx)
          /\ UNCHANGED <<active_idx, end_idx, completion_start_idx,
                         completion_end_idx, tokens, size, log_probabilities_data>>
          /\ is_initial_prompt' = TRUE]_vars

\* ------------------------------------------------------------------------
\* C12 -- outstanding_completion_tokens returns, in increasing position
\* order, one (token, logprob-or-None) pair for every position in
\* [completion_start_idx, completion_end_idx), the logprob being the ledger
\* entry of that position; afterwards the ledger has no entry for a
\* returned position, completion_start_idx = completion_end_idx, and
\* start_idx, active_idx, end_idx, completion_end_idx and the buffer are
\* unchanged.
\* ------------------------------------------------------------------------

C12_DrainEffect ==
    LET n == completion_end_idx - completion_start_idx
    IN /\ last'.raised = "none"
       /\ ~ret'.is_none
       /\ Len(ret'.list) = (IF n > 0 THEN n ELSE 0)
       /\ \A k \in 1..n :
             LET p == completion_start_idx + k - 1
             IN /\ ValidIndex(p, size)
                /\ ret'.list[k][1] = tokens[Pos(p, size)]
                /\ ret'.list[k][2] = (IF p \in DOMAIN log_probabilities_data
                                      THEN log_probabilities_data[p] ELSE None)
       /\ DOMAIN log_probabilities_data' = DOMAIN log_probabilities_data \ CompletionRange
       /\ \A p \in DOMAIN log_probabilities_data' :
             log_probabilities_data'[p] = log_probabilities_data[p]
       /\ completion_start_idx' = completion_end_idx'
       /\ UNCHANGED <<start_idx, active_idx, end_idx, completion_end_idx, tokens, size>>

C12_Drain == [][outstanding_completion_tokens => C12_DrainEffect]_vars

\* C12 on the drains called while the invariants of C1 and C2 hold.
C12_UnderWindowInvariants ==
    [][(C1_CursorInvariant /\ C2_CompletionWindow /\ outstanding_completion_tokens)
          => C12_DrainEffect]_vars

\* ------------------------------------------------------------------------
\* C13 -- After every operation, every key of the log-probability ledger is
\* a position p with 0 <= p < end_idx.
\* ------------------------------------------------------------------------

C13_LedgerKeysCommitted ==
    pc = "live" =>
        \A p \in DOMAIN log_probabilities_data : 0 <= p /\ p < end_idx

\* ------------------------------------------------------------------------
\* C14 -- size never decreases; update and jump_ahead increase it by
\* exactly 128 when (and only when) the write would land at or beyond the
\* current capacity; on growth every position below the old size keeps its
\* value and every new position in [old size, new size) holds the zero
\* filler.
\* ------------------------------------------------------------------------

\* The positions the step wrote a token at (none, or the one of the write
\* it appended to the log).
WrittenNow == {written'[k].pos : k \in (Len(written) + 1)..Len(written')}

C14_Grew == size' # size

C14_GrowthEffect ==
    /\ size' = size + CHUNK_SIZE
    /\ DOMAIN tokens' = 0..(size' - 1)
    /\ \A p \in 0..(size - 1) : p \notin WrittenNow => tokens'[p] = tokens[p]
    /\ \A p \in size..(size' - 1) : p \notin WrittenNow => tokens'[p] = 0

\* A generation-mode update, or a jump_ahead.
C14_WritingCall ==
    \/ last'.op = "update" /\ active_idx >= end_idx
    \/ last'.op = "jump_ahead"

C14_StepEffect ==
    /\ size' >= size
    /\ C14_Grew => C14_GrowthEffect
    /\ C14_Grew <=> (C14_WritingCall /\ active_idx >= size)

C14_BufferGrowth == [][pc = "live" => C14_StepEffect]_vars

\* What does hold: the buffer grows by one chunk at a time, and only in a
\* writing call that finds end_idx at or beyond the capacity; the positions
\* below the old size keep their values.
C14_GrowthByChunks ==
    [][pc = "live" =>
          /\ size' >= size
          /\ C14_Grew <=> (C14_WritingCall /\ end_idx >= size)
          /\ C14_Grew =>
                /\ size' = size + CHUNK_SIZE
                /\ \A p \in 0..(size - 1) : p \notin WrittenNow => tokens'[p] = tokens[p]]_vars

\* ------------------------------------------------------------------------
\* C15 -- Once a position is below end_idx its content is never changed:
\* for every operation and every p < end_idx before it, tokens[p] is the
\* same after it (update and jump_ahead write only at the position that
\* becomes the new last committed position; bump_token_indices, reset and
\* outstanding_completion_tokens write nothing).
\* ------------------------------------------------------------------------

C15_StepKeepsCommitted ==
    /\ \A p \in 0..(end_idx - 1) :
          p \in DOMAIN tokens => (p \in DOMAIN tokens' /\ tokens'[p] = tokens[p])
    /\ WrittenNow \subseteq {end_idx' - 1}
    /\ last'.op \in {"bump_token_indices", "reset", "outstanding_completion_tokens"}
          => (tokens' = tokens /\ WrittenNow = {})

C15_CommittedIsImmutable == [][pc = "live" => C15_StepKeepsCommitted]_vars

\* C15 on the calls made with no chunked prefill pending, while the cursor
\* invariant of C1 holds.
C15_WhenNothingPending ==
    [][(pc = "live" /\ C1_CursorInvariant /\ (last'.op = "jump_ahead" => active_idx = end_idx))
          => C15_StepKeepsCommitted]_vars

\* ------------------------------------------------------------------------
\* C18 -- is_initial_prompt is true exactly when the window
\* [start_idx, active_idx) is an unconsumed initial prompt (after
\* construction or reset), and false whenever the window is a generation
\* step or a resumed later chunk of chunked prefill.
\* ------------------------------------------------------------------------

\* The window was set by the constructor or by reset.
WindowIsInitialPrompt == last.op \in {"__init__", "reset"}

\* The window was set by an update that returned: a generation step, or
\* (wrote is FALSE) the remaining chunk of a chunked prefill.
WindowIsGenerationStep == last = Call("update", "none", TRUE)
WindowIsResumedChunk == last = Call("update", "none", FALSE)

C18_InitialPromptFlag ==
    pc = "live" =>
        /\ WindowIsInitialPrompt => is_initial_prompt
        /\ WindowIsGenerationStep => ~is_initial_prompt
        /\ WindowIsResumedChunk => ~is_initial_prompt

\* What does hold: the flag is set by the constructor and reset, cleared by
\* a write that returned, and left alone by every other call.
C18_FlagFollowsWrites ==
    [][pc = "live" =>
          is_initial_prompt' =
             (IF last'.op = "reset" THEN TRUE
              ELSE IF last'.wrote /\ last'.raised = "none" THEN FALSE
              ELSE is_initial_prompt)]_vars

\* ------------------------------------------------------------------------
\* C19 -- Immediately after any update call that returns normally,
\* active_idx = end_idx and start_idx is the value active_idx had before the
\* call; hence a single update always finishes a pending chunked prefill
\* and, absent intervening bump_token_indices calls, the next update
\* performs a buffer write.
\* ------------------------------------------------------------------------

UpdateReturned == last.op = "update" /\ last.raised = "none"

C19_UpdateEffect ==
    /\ last'.raised = "none" =>
          /\ active_idx' = end_idx'
          /\ start_idx' = active_idx
    \* the update right after an update that returned writes the buffer
    /\ UpdateReturned => last'.wrote

C19_UpdateClosesWindow ==
    [][\A t \in Tokens, lp \in LogProbs \cup {None}, e \in BOOLEAN :
          update(t, lp, e) => C19_UpdateEffect]_vars

\* C19 on the updates called while the cursor invariant of C1 holds.
C19_UnderCursorInvariant ==
    [][\A t \in Tokens, lp \in LogProbs \cup {None}, e \in BOOLEAN :
          (C1_CursorInvariant /\ update(t, lp, e)) => C19_UpdateEffect]_vars

\* The first half of C19 alone: where an update that returns leaves the
\* cursors.
C19_ReturnedUpdateCursors ==
    [][\A t \in Tokens, lp \in LogProbs \cup {None}, e \in BOOLEAN :
          (update(t, lp, e) /\ last'.raised = "none")
              => (active_idx' = end_idx' /\ start_idx' = active_idx)]_vars

\* ------------------------------------------------------------------------
\* C20 -- For a context constructed from a non-empty prompt, after any
\* sequence of update, jump_ahead, reset, outstanding_completion_tokens
\* and bump_token_indices calls whose start delta is non-negative,
\* active_length = active_idx - start_idx >= 1 and next_tokens has exactly
\* active_length elements.
\* ------------------------------------------------------------------------

\* The start deltas that are not negative (None counts as 0).
ForwardDeltas == {d \in Deltas : OrZero(d) >= 0}

\* The calls of Next, bump_token_indices with a start delta of ForwardDeltas.
NextForward ==
    \/ \E t \in Tokens, lp \in LogProbs \cup {None}, e \in BOOLEAN : update(t, lp, e)
    \/ \E t \in Tokens : jump_ahead(t)
    \/ \E ds \in ForwardDeltas, da \in Deltas, de \in EndDeltas :
          bump_token_indices(ds, da, de)
    \/ reset
    \/ outstanding_completion_tokens

SpecForward == Init /\ [][NextForward]_vars

C20_WindowNeverEmpty ==
    pc = "live" =>
        /\ active_length >= 1
        /\ Len(next_tokens) = active_length

\* The first half of C20, and the second while the cursor invariant of C1
\* holds.
C20_ActiveLengthPositive == pc = "live" => active_length >= 1

C20_UnderCursorInvariant ==
    (pc = "live" /\ C1_CursorInvariant) => Len(next_tokens) = active_length

\* ------------------------------------------------------------------------
\* C16 -- When a matcher is bound, every token accepted into the sequence
\* is fed to it exactly once and in order: each generation-mode update and
\* each jump_ahead calls matcher.accept_token with the written token, while
\* chunked-prefill update, bump_token_indices, reset and
\* outstanding_completion_tokens never call it; a rejected token makes the
\* operation fail with a fatal error instead of returning normally.
\* ------------------------------------------------------------------------

\* The tokens written to the buffer since the matcher was bound.
WrittenSinceBound ==
    [k \in 1..(Len(written) - matcher.since) |-> written[matcher.since + k].token]

C16_OfferedAreWritten == matcher.bound => matcher.offered = WrittenSinceBound

C16_StepFeedsMatcher ==
    (matcher.bound /\ last'.op # "set_matcher") =>
        IF last'.wrote
        THEN LET t == written'[Len(written')].token
             IN /\ matcher'.offered = Append(matcher.offered, t)
                /\ \/ matcher'.fed = Append(matcher.fed, t) /\ last'.raised = "none"
                   \/ matcher'.fed = matcher.fed /\ last'.raised = "AssertionError"
        ELSE matcher' = matcher

C16_MatcherFedInOrder ==
    /\ [](C16_OfferedAreWritten)
    /\ [][C16_StepFeedsMatcher]_vars

\* A bound matcher accepted the token of an update and then refused the
\* token of a jump_ahead.
C16_Witness ==
    /\ matcher.bound
    /\ Len(matcher.offered) = 2
    /\ Len(matcher.fed) = 1
    /\ last = Call("jump_ahead", "AssertionError", TRUE)
    /\ matcher.offered = <<1, 2>>

\* ------------------------------------------------------------------------
\* C17 -- For TextAndVisionContext, pixel_values holds the inputs supplied
\* at construction until the first update call; after the first update call
\* that returns (whichever branch it takes) pixel_values is empty, and it
\* stays empty after every later operation, reset and jump_ahead included.
\* ------------------------------------------------------------------------

\* An update returns in this step.
UpdateReturns == last'.op = "update" /\ last'.raised = "none" /\ nops' = nops + 1

C17_PixelValuesStep ==
    /\ UpdateReturns => pixel_values' = <<>>
    /\ ~UpdateReturns => pixel_values' = pixel_values

C17_PixelValuesState ==
    /\ pixel_values \in {PixelValues, <<>>}
    /\ last.op = "__init__" => pixel_values = PixelValues
    /\ UpdateReturned => pixel_values = <<>>

====
